---- MODULE Spec2Model ----
(***************************************************************************)
(* Model of the image-processor worker pool (WorkerPoolService) and of the *)
(* batch orchestrator built on it (CsvProcessorService).                   *)
(*                                                                         *)
(* The pool and the orchestrator run on one event loop: every action below *)
(* is one event handler (or one promise continuation) run to completion.   *)
(* Worker threads run in parallel; they interact with the pool only by the *)
(* task message they receive and the result message, 'error' event and     *)
(* 'exit' event they raise.                                                *)
(***************************************************************************)
EXTENDS Integers, Sequences, FiniteSets, TLC

\* ---------------------------------------------------------------- bounds
\* Pool size K computed by the constructor from the host's CPU count.
numWorkers == 2
\* Number of Worker objects that replaceWorker may construct.
MaxReplacements == 1
\* Rows of one parsed CSV.
MaxRows == 2
\* Number of tasks submitted to the pool by direct calls of processImage.
MaxTasks == 3
\* Number of items (URL occurrences) of the batch.
MaxItems == 2
\* Largest host CPU count (os.cpus().length) the constructor is run with.
MaxCpus == 18

\* WorkerPoolService.MAX_WORKERS
MAX_WORKERS == 15

\* The model follows the background chain of one processCSV call; the chains
\* of different calls have their own counters and share only the pool.
Batches == {1}
\* Task ids: 1..MaxTasks for direct calls of processImage, 1..MaxItems for the
\* items of the batch (the id of the item's Image row).
Tasks == 1..(IF MaxTasks > MaxItems THEN MaxTasks ELSE MaxItems)
\* Worker objects: 1..numWorkers are built by initializeWorkers, the
\* following ones by replaceWorker: MaxReplacements of them, and one more for
\* each worker that cleanup terminates.
Units == 1..(numWorkers + MaxReplacements + numWorkers)

VARIABLES
  \* ---- WorkerPoolService fields
  workers,            \* Worker[]: the pool's members
  taskQueue,          \* queued tasks (task ids), head first
  availableWorkers,   \* Worker[] used as a stack (push / pop)
  workerIds,          \* Map<Worker, number>; 0 = no entry
  activeJobs,         \* Map<Worker, string>; 0 = no entry
  \* ---- worker threads
  alive,              \* worker threads that are running
  running,            \* per worker: task messages received and not yet answered
  nextWorker,         \* identity of the next Worker object to be constructed
  posted,             \* per worker: result messages it posted on parentPort that
                      \* the pool's 'message' listener has not handled yet
  lastFailed,         \* workers whose previous run of processImage threw
  \* ---- promises returned by processImage, and history
  promise,            \* per task: [st, res]: state of the promise, and the
                      \* id of the ProcessResult it resolved with
  dispatched,         \* tasks that have been posted to a worker at least once
  \* ---- cleanup
  cleanupPhase,       \* "none", "terminating" (awaiting Promise.all), "done"
  terminating,        \* workers whose terminate() promise is not yet fulfilled
  queuedAtCleanup,    \* tasks that were waiting in the queue, never posted to a
                      \* worker, when cleanup was called
  \* ---- CsvProcessorService
  reqStatus,          \* per batch: status of the ProcessingRequest row
  records,            \* per batch: parsed rows still to be iterated, each the
                      \* number of URLs it holds
  totalImages,        \* per batch: the totalImages counter (-1 before the loop)
  bgPhase,            \* per batch: position of the background promise chain
  itemPhase,          \* per item: position of its processPromise
  images,             \* Image rows
  completedImages,    \* per batch: the completedImages counter
  dto                 \* per batch: status field of the ProcessingRequestDto that
                      \* processCSV returned ("none" before it returns)

poolVars == <<workers, taskQueue, availableWorkers, workerIds, activeJobs,
              alive, running, nextWorker, promise, dispatched,
              cleanupPhase, terminating, queuedAtCleanup, posted, lastFailed>>
csvVars == <<reqStatus, records, totalImages, bgPhase, itemPhase, images,
             completedImages, dto>>
vars == <<workers, taskQueue, availableWorkers, workerIds, activeJobs,
          alive, running, nextWorker, promise, dispatched,
          cleanupPhase, terminating, queuedAtCleanup, posted, lastFailed,
          reqStatus, records, totalImages, bgPhase, itemPhase, images,
          completedImages, dto>>

\* ---------------------------------------------------------------- helpers
Range(s) == {s[i] : i \in 1..Len(s)}

\* Array.prototype.indexOf, 1-based; 0 when absent.
IndexOf(s, x) ==
  IF x \in Range(s) THEN CHOOSE i \in 1..Len(s) : s[i] = x /\ \A j \in 1..(i-1) : s[j] # x
  ELSE 0

\* Array.prototype.splice(index, 1), 1-based.
Splice(s, index) == SubSeq(s, 1, index - 1) \o SubSeq(s, index + 1, Len(s))

\* Array.prototype.filter(w => w !== x).
RECURSIVE FilterOut(_, _)
FilterOut(s, x) ==
  IF s = <<>> THEN <<>>
  ELSE IF Head(s) = x THEN FilterOut(Tail(s), x)
       ELSE <<Head(s)>> \o FilterOut(Tail(s), x)

NoPromise == [st |-> "none", res |-> 0]

\* Math.min and Math.max of two numbers.
Min(x, y) == IF x < y THEN x ELSE y

Max(x, y) == IF x > y THEN x ELSE y

\* The pool's state as one value, so that a handler and the handlers it calls
\* compose as functions.
Pool ==
  [workers |-> workers, taskQueue |-> taskQueue,
   availableWorkers |-> availableWorkers, workerIds |-> workerIds,
   activeJobs |-> activeJobs, alive |-> alive, running |-> running,
   nextWorker |-> nextWorker, promise |-> promise, dispatched |-> dispatched,
   cleanupPhase |-> cleanupPhase, terminating |-> terminating,
   queuedAtCleanup |-> queuedAtCleanup, posted |-> posted,
   lastFailed |-> lastFailed]

SetPool(p) ==
  /\ workers' = p.workers
  /\ taskQueue' = p.taskQueue
  /\ availableWorkers' = p.availableWorkers
  /\ workerIds' = p.workerIds
  /\ activeJobs' = p.activeJobs
  /\ alive' = p.alive
  /\ running' = p.running
  /\ nextWorker' = p.nextWorker
  /\ promise' = p.promise
  /\ dispatched' = p.dispatched
  /\ cleanupPhase' = p.cleanupPhase
  /\ terminating' = p.terminating
  /\ queuedAtCleanup' = p.queuedAtCleanup
  /\ posted' = p.posted
  /\ lastFailed' = p.lastFailed

\* ---------------------------------------------------------------- pool
\* processNextTask leaving the worker in availableWorkers.
processNextTask_NoPop(p) ==
  IF Len(p.taskQueue) = 0 \/ Len(p.availableWorkers) = 0 THEN p
  ELSE LET worker == p.availableWorkers[Len(p.availableWorkers)]
           task == Head(p.taskQueue)
       IN [p EXCEPT
             !.activeJobs[worker] = task,
             !.running[worker] = IF worker \in p.alive THEN Append(@, task) ELSE @,
             !.dispatched = @ \cup {task}]

\* processNextTask taking the task out of the queue when it posts it.
processNextTask_Shift(p) ==
  IF Len(p.taskQueue) = 0 \/ Len(p.availableWorkers) = 0 THEN p
  ELSE LET worker == p.availableWorkers[Len(p.availableWorkers)]
           task == Head(p.taskQueue)
       IN [p EXCEPT
             !.taskQueue = Tail(@),
             !.availableWorkers = SubSeq(@, 1, Len(@) - 1),
             !.activeJobs[worker] = task,
             !.running[worker] = IF worker \in p.alive THEN Append(@, task) ELSE @,
             !.dispatched = @ \cup {task}]

\* WorkerPoolService.processNextTask
processNextTask(p) ==
  IF Len(p.taskQueue) = 0 \/ Len(p.availableWorkers) = 0 THEN p
  ELSE LET worker == p.availableWorkers[Len(p.availableWorkers)]
           task == Head(p.taskQueue)
       IN [p EXCEPT
             !.availableWorkers = SubSeq(@, 1, Len(@) - 1),
             !.activeJobs[worker] = task,
             !.running[worker] = IF worker \in p.alive THEN Append(@, task) ELSE @,
             !.dispatched = @ \cup {task}]

\* replaceWorker numbering the new worker by the position it is pushed at (the
\* end of the workers array).
replaceWorker_PositionId(p, worker) ==
  LET index == IndexOf(p.workers, worker)
      newWorker == p.nextWorker
  IN IF index > 0
     THEN [p EXCEPT
             !.workers = Append(Splice(@, index), newWorker),
             !.availableWorkers = Append(FilterOut(@, worker), newWorker),
             !.workerIds = [@ EXCEPT ![worker] = 0, ![newWorker] = Len(p.workers)],
             !.activeJobs[worker] = 0,
             !.alive = @ \cup {newWorker},
             !.nextWorker = @ + 1]
     ELSE p

\* replaceWorker without the index > -1 test: splice(-1, 1) takes the last
\* worker out of the array, and a new worker is started on every call.
replaceWorker_NoGuard(p, worker) ==
  LET oldWorkerId == p.workerIds[worker]
      index == IndexOf(p.workers, worker)
      newWorker == p.nextWorker
  IN [p EXCEPT
        !.workers = Append(Splice(@, IF index > 0 THEN index ELSE Len(@)),
                           newWorker),
        !.availableWorkers = Append(FilterOut(@, worker), newWorker),
        !.workerIds = [@ EXCEPT ![worker] = 0, ![newWorker] = oldWorkerId],
        !.activeJobs[worker] = 0,
        !.alive = @ \cup {newWorker},
        !.nextWorker = @ + 1]

\* WorkerPoolService.replaceWorker
replaceWorker(p, worker) ==
  LET oldWorkerId == p.workerIds[worker]
      index == IndexOf(p.workers, worker)
      newWorker == p.nextWorker
  IN IF index > 0
     THEN [p EXCEPT
             !.workers = Append(Splice(@, index), newWorker),
             !.availableWorkers = Append(FilterOut(@, worker), newWorker),
             !.workerIds = [@ EXCEPT ![worker] = 0, ![newWorker] = oldWorkerId],
             !.activeJobs[worker] = 0,
             !.alive = @ \cup {newWorker},
             !.nextWorker = @ + 1]
     ELSE p

\* handleWorkerMessage without this.activeJobs.delete(worker).
handleWorkerMessage_KeepsJob(p, worker, message) ==
  LET shifted ==
        IF Len(p.taskQueue) > 0
        THEN [p EXCEPT
                !.taskQueue = Tail(@),
                !.promise[Head(p.taskQueue)] =
                    IF message.success
                    THEN [st |-> "resolved", res |-> message.id]
                    ELSE [st |-> "rejected", res |-> 0]]
        ELSE p
      idle == [shifted EXCEPT !.availableWorkers = Append(@, worker)]
  IN processNextTask(idle)

\* WorkerPoolService.handleWorkerMessage; message = [success, id], id being
\* result.id (the imageId of the task message the worker answered) when
\* success is true.
handleWorkerMessage(p, worker, message) ==
  LET shifted ==
        IF Len(p.taskQueue) > 0
        THEN [p EXCEPT
                !.taskQueue = Tail(@),
                !.promise[Head(p.taskQueue)] =
                    IF message.success
                    THEN [st |-> "resolved", res |-> message.id]
                    ELSE [st |-> "rejected", res |-> 0]]
        ELSE p
      idle == [shifted EXCEPT
                 !.activeJobs[worker] = 0,
                 !.availableWorkers = Append(@, worker)]
  IN processNextTask(idle)

\* WorkerPoolService.handleWorkerError
handleWorkerError(p, worker) ==
  LET shifted ==
        IF Len(p.taskQueue) > 0
        THEN [p EXCEPT
                !.taskQueue = Tail(@),
                !.promise[Head(p.taskQueue)] = [st |-> "rejected", res |-> 0]]
        ELSE p
  IN replaceWorker(shifted, worker)

\* WorkerPoolService.processImage: the executor of the returned promise.
processImage(p, imageId) ==
  LET queued == [p EXCEPT
                   !.taskQueue = Append(@, imageId),
                   !.promise[imageId] = [st |-> "pending", res |-> 0]]
  IN IF Len(queued.availableWorkers) > 0 THEN processNextTask(queued) ELSE queued

\* The worker thread has stopped: it answers nothing any more, and the promise
\* of a terminate() called on it is fulfilled.
Stopped(p, worker) ==
  [p EXCEPT !.alive = @ \ {worker}, !.running[worker] = <<>>,
            !.terminating = @ \ {worker}]

\* Worker objects constructed by replaceWorker so far.
Replacements == nextWorker - 1 - numWorkers

\* WorkerPoolService constructor + initializeWorkers
InitPool ==
  /\ workers = [i \in 1..numWorkers |-> i]
  /\ availableWorkers = [i \in 1..numWorkers |-> i]
  /\ taskQueue = <<>>
  /\ workerIds = [w \in Units |-> IF w <= numWorkers THEN w ELSE 0]
  /\ activeJobs = [w \in Units |-> 0]
  /\ alive = 1..numWorkers
  /\ running = [w \in Units |-> <<>>]
  /\ nextWorker = numWorkers + 1
  /\ promise = [t \in Tasks |-> NoPromise]
  /\ dispatched = {}
  /\ cleanupPhase = "none"
  /\ terminating = {}
  /\ queuedAtCleanup = {}
  /\ posted = [w \in Units |-> <<>>]
  /\ lastFailed = {}

\* ---- the constructor for any host
\* Worker objects of a pool of the largest size.
CtorUnits == 1..MAX_WORKERS

\* const cpuCount = Math.max(1, os.cpus().length - 1)
cpuCount(cpus) == Max(1, cpus - 1)

\* The size computed with the ceiling of the constructor's comment ("maximum 5").
numWorkersOf_Max5(cpus) == Min(cpuCount(cpus), 5)

\* this.numWorkers = Math.min(cpuCount, this.MAX_WORKERS)
numWorkersOf(cpus) == Min(cpuCount(cpus), MAX_WORKERS)

\* WorkerPoolService.initializeWorkers for a pool of n workers.
initializeWorkers(p, n) ==
  [p EXCEPT
     !.workers = [i \in 1..n |-> i],
     !.availableWorkers = [i \in 1..n |-> i],
     !.workerIds = [w \in DOMAIN p.workerIds |-> IF w <= n THEN w ELSE 0],
     !.alive = 1..n,
     !.nextWorker = n + 1]

\* The service does not exist yet.
InitCtor ==
  /\ workers = <<>>
  /\ availableWorkers = <<>>
  /\ taskQueue = <<>>
  /\ workerIds = [w \in CtorUnits |-> 0]
  /\ activeJobs = [w \in CtorUnits |-> 0]
  /\ alive = {}
  /\ running = [w \in CtorUnits |-> <<>>]
  /\ nextWorker = 1
  /\ promise = [t \in Tasks |-> NoPromise]
  /\ dispatched = {}
  /\ cleanupPhase = "none"
  /\ terminating = {}
  /\ queuedAtCleanup = {}
  /\ posted = [w \in CtorUnits |-> <<>>]
  /\ lastFailed = {}

\* Not yet constructed.
Unconstructed == nextWorker = 1

\* WorkerPoolService constructor on a host with cpus CPUs.
construct(cpus) ==
  /\ Unconstructed
  /\ SetPool(initializeWorkers(Pool, numWorkersOf(cpus)))
  /\ UNCHANGED csvVars

\* Only the workers built by initializeWorkers have an 'exit' listener
\* (replaceWorker registers 'message' and 'error' listeners).
HasExitListener(worker) == worker <= numWorkers

\* The 'exit' event of a worker.
onExit(p, worker) ==
  IF HasExitListener(worker) THEN replaceWorker(p, worker) ELSE p

\* Tasks for which processImage has been called.
Submitted == {t \in Tasks : promise[t].st # "none"}

\* A caller of the pool submits the next task; tasks are numbered in the order
\* of their submission.
Submit ==
  /\ Cardinality(Submitted) < MaxTasks
  /\ SetPool(processImage(Pool, Cardinality(Submitted) + 1))
  /\ UNCHANGED csvVars

\* image-processor.worker.ts, parentPort.on('message'): the worker answers
\* the k-th task message it holds; the pool's 'message' listener runs.
WorkerMessage(worker, k, success) ==
  /\ worker \in alive
  /\ k \in 1..Len(running[worker])
  /\ LET id == running[worker][k]
         answered == [Pool EXCEPT !.running[worker] = Splice(@, k)]
     IN SetPool(handleWorkerMessage(answered, worker,
                                    [success |-> success, id |-> id]))
  /\ UNCHANGED csvVars

\* The worker thread dies of an uncaught exception: the 'error' event is
\* raised, then the 'exit' event.
WorkerError(worker) ==
  /\ worker \in alive
  /\ worker \in Range(workers) => Replacements < MaxReplacements
  /\ SetPool(onExit(handleWorkerError(Stopped(Pool, worker), worker), worker))
  /\ UNCHANGED csvVars

\* The worker thread stops without an uncaught exception (exit code 0 or not):
\* only the 'exit' event is raised.
WorkerTerminates(worker) ==
  /\ worker \in alive
  /\ HasExitListener(worker) => Replacements < MaxReplacements
  /\ SetPool(onExit(Stopped(Pool, worker), worker))
  /\ UNCHANGED csvVars

\* ---------------------------------------------------------------- worker thread
\* How a run of the worker's processImage ends: with a result, or with an
\* exception of axios.get (timeout, other error) or of sharp.
Steps == {"ok", "fetchTimeout", "fetchError", "transcodeError"}

\* Message of the exception that the failing step raises (one per kind).
ReasonOf(step) == step

\* image-processor.worker.ts, processImage: its outcome, [threw, id, message].
\* The catch parameter is named error and hides the function error of line 17:
\* the call error(...) of line 64 applies the caught exception, which raises
\* a TypeError before 'throw error' is reached.
workerProcessImage(imageId, step) ==
  IF step = "ok"
  THEN [threw |-> FALSE, id |-> imageId, message |-> ""]
  ELSE [threw |-> TRUE, id |-> 0, message |-> "error is not a function"]

\* A message handler that posts nothing when processImage throws.
onTaskMessage_SilentFailure(imageId, step) ==
  LET r == workerProcessImage(imageId, step)
  IN IF ~r.threw
     THEN <<[success |-> TRUE, id |-> r.id, error |-> "", thrown |-> ""]>>
     ELSE <<>>

\* image-processor.worker.ts, parentPort.on('message'): the messages it posts
\* for one task message. thrown records the reason of the exception that the
\* failing step raised.
onTaskMessage(imageId, step) ==
  LET r == workerProcessImage(imageId, step)
  IN IF ~r.threw
     THEN <<[success |-> TRUE, id |-> r.id, error |-> "", thrown |-> ""]>>
     ELSE <<[success |-> FALSE, id |-> 0, error |-> r.message,
             thrown |-> ReasonOf(step)]>>

\* The handler of the worker's k-th task message runs to its end.
WorkerHandles(worker, k, step) ==
  /\ worker \in alive
  /\ k \in 1..Len(running[worker])
  /\ SetPool([Pool EXCEPT
                !.running[worker] = Splice(@, k),
                !.posted[worker] = @ \o onTaskMessage(running[worker][k], step),
                !.lastFailed = IF step = "ok" THEN @ \ {worker}
                               ELSE @ \cup {worker}])
  /\ UNCHANGED csvVars

\* The pool's 'message' listener runs for the oldest message of a worker.
Deliver(worker) ==
  /\ posted[worker] # <<>>
  /\ LET message == Head(posted[worker])
         taken == [Pool EXCEPT !.posted[worker] = Tail(@)]
     IN SetPool(handleWorkerMessage(taken, worker, message))
  /\ UNCHANGED csvVars

\* ---------------------------------------------------------------- cleanup
\* WorkerPoolService.cleanup up to its await: terminate() is called on every
\* worker of the pool. The promise of a worker that has already exited is
\* fulfilled without an event.
cleanup ==
  /\ cleanupPhase = "none"
  /\ SetPool([Pool EXCEPT
                !.cleanupPhase = "terminating",
                !.terminating = {w \in Range(workers) : w \in alive},
                !.queuedAtCleanup = Range(taskQueue) \ dispatched])
  /\ UNCHANGED csvVars

\* A worker that terminate() was called on stops: its 'exit' event is raised
\* and its terminate() promise fulfilled. Until then the pool's listeners
\* still run for the messages the worker posted.
WorkerTerminated(worker) ==
  /\ worker \in terminating
  /\ SetPool(onExit(Stopped(Pool, worker), worker))
  /\ UNCHANGED csvVars

\* WorkerPoolService.cleanup after its await: the collections are reset.
cleanupDone(p) ==
  [p EXCEPT
     !.workers = <<>>,
     !.availableWorkers = <<>>,
     !.taskQueue = <<>>,
     !.workerIds = [w \in Units |-> 0],
     !.activeJobs = [w \in Units |-> 0],
     !.cleanupPhase = "done"]

\* Promise.all of cleanup is fulfilled and cleanup runs to its end.
cleanupCompletes ==
  /\ cleanupPhase = "terminating"
  /\ terminating = {}
  /\ SetPool(cleanupDone(Pool))
  /\ UNCHANGED csvVars

\* ---------------------------------------------------------------- orchestrator
\* parseCSV's results: at least one row (an empty result raises
\* BadRequestException before any request is created); a row is represented by
\* the number of non-empty URLs its 'Input Image Urls' field splits into.
RECURSIVE totalUrls(_)
totalUrls(rows) ==
  IF rows = <<>> THEN 0 ELSE Head(rows) + totalUrls(Tail(rows))

RecordSets ==
  {rows \in UNION {[1..n -> 0..MaxItems] : n \in 1..MaxRows} :
     totalUrls(rows) <= MaxItems}

\* The items (URL occurrences) of a batch whose rows have been iterated; an
\* item's number is also the id of the Image row created for it and the
\* imageId of its task.
ItemsOf(b) == 1..totalImages[b]

\* Id of the second Image row that the catch branch creates for an item.
FailedRowId(i) == MaxItems + i

InitCsv ==
  /\ reqStatus = [b \in Batches |-> "none"]
  /\ records = [b \in Batches |-> <<>>]
  /\ totalImages = [b \in Batches |-> -1]
  /\ bgPhase = [b \in Batches |-> "none"]
  /\ itemPhase = [i \in Tasks |-> "none"]
  /\ images = {}
  /\ completedImages = [b \in Batches |-> 0]
  /\ dto = [b \in Batches |-> "none"]

\* A processCSV that awaits the start of processRecords before it returns: the
\* request is PROCESSING and the items are fanned out when the caller gets the
\* DTO.
processCSV_FanOutFirst(b, rows) ==
  /\ reqStatus[b] = "none"
  /\ reqStatus' = [reqStatus EXCEPT ![b] = "PROCESSING"]
  /\ records' = records
  /\ totalImages' = [totalImages EXCEPT ![b] = totalUrls(rows)]
  /\ itemPhase' = [i \in Tasks |->
                     IF i \in 1..totalUrls(rows) THEN "creating" ELSE itemPhase[i]]
  /\ bgPhase' = [bgPhase EXCEPT ![b] = "joining"]
  /\ dto' = [dto EXCEPT ![b] = "PROCESSING"]
  /\ UNCHANGED <<images, completedImages>>
  /\ UNCHANGED poolVars

\* CsvProcessorService.processCSV up to its return: the request row is created
\* PENDING, the background chain is scheduled (Promise.resolve().then) and the
\* DTO is built from the created row.
processCSV(b, rows) ==
  /\ reqStatus[b] = "none"
  /\ reqStatus' = [reqStatus EXCEPT ![b] = "PENDING"]
  /\ records' = [records EXCEPT ![b] = rows]
  /\ bgPhase' = [bgPhase EXCEPT ![b] = "scheduled"]
  /\ dto' = [dto EXCEPT ![b] = "PENDING"]
  /\ UNCHANGED <<totalImages, itemPhase, images, completedImages>>
  /\ UNCHANGED poolVars

\* A background chain that calls processRecords without the update to
\* PROCESSING.
startBackground_NoUpdate(b) ==
  /\ bgPhase[b] = "scheduled"
  /\ bgPhase' = [bgPhase EXCEPT ![b] = "processing"]
  /\ UNCHANGED <<reqStatus, records, totalImages, itemPhase, images,
                 completedImages, dto>>
  /\ UNCHANGED poolVars

\* Background chain, first part: findByPk and update to PROCESSING.
startBackground(b) ==
  /\ bgPhase[b] = "scheduled"
  /\ reqStatus' = [reqStatus EXCEPT ![b] = "PROCESSING"]
  /\ bgPhase' = [bgPhase EXCEPT ![b] = "processing"]
  /\ UNCHANGED <<records, totalImages, itemPhase, images, completedImages, dto>>
  /\ UNCHANGED poolVars

\* CsvProcessorService.processRecords after mkdir: the loop over the rows starts
\* one processPromise per URL; each runs up to its first await
\* (imageModel.create). Then processRecords awaits Promise.all.
processRecords(b) ==
  /\ bgPhase[b] = "processing"
  /\ bgPhase' = [bgPhase EXCEPT ![b] = "joining"]
  /\ totalImages' = [totalImages EXCEPT ![b] = totalUrls(records[b])]
  /\ records' = [records EXCEPT ![b] = <<>>]
  /\ itemPhase' = [i \in Tasks |->
                     IF i \in 1..totalUrls(records[b]) THEN "creating"
                     ELSE itemPhase[i]]
  /\ UNCHANGED <<reqStatus, images, completedImages, dto>>
  /\ UNCHANGED poolVars

\* fs.mkdir rejects: processRecords rethrows and the catch of the background
\* chain marks the request FAILED.
processRecordsThrows(b) ==
  /\ bgPhase[b] = "processing"
  /\ bgPhase' = [bgPhase EXCEPT ![b] = "done"]
  /\ reqStatus' = [reqStatus EXCEPT ![b] = "FAILED"]
  /\ records' = [records EXCEPT ![b] = <<>>]
  /\ totalImages' = [totalImages EXCEPT ![b] = 0]
  /\ UNCHANGED <<itemPhase, images, completedImages, dto>>
  /\ UNCHANGED poolVars

\* processPromise after imageModel.create: the row exists with status
\* 'pending', and workerPool.processImage is called with its id. The creations
\* of a batch complete in any order; the database generates the ids, and the
\* rows are numbered here in the order of their creation.
imageCreated(b, i) ==
  /\ i \in ItemsOf(b)
  /\ itemPhase[i] = "creating"
  /\ \A j \in ItemsOf(b) : j < i => itemPhase[j] # "creating"
  /\ itemPhase' = [itemPhase EXCEPT ![i] = "awaiting"]
  /\ images' = images \cup {[id |-> i, item |-> i, request |-> b,
                              status |-> "pending", outputUrl |-> 0]}
  /\ SetPool(processImage(Pool, i))
  /\ UNCHANGED <<reqStatus, records, totalImages, bgPhase, completedImages, dto>>

\* image.update of the try branch.
updateImage(rows, i, processedImage) ==
  {IF r.id = i THEN [r EXCEPT !.status = "completed", !.outputUrl = processedImage]
   ELSE r : r \in rows}

\* processPromise after its pool promise resolved: the item's row is updated to
\* 'completed' and the counter incremented.
itemResolved(b, i) ==
  /\ i \in ItemsOf(b)
  /\ itemPhase[i] = "awaiting"
  /\ promise[i].st = "resolved"
  /\ images' = updateImage(images, i, promise[i].res)
  /\ completedImages' = [completedImages EXCEPT ![b] = @ + 1]
  /\ itemPhase' = [itemPhase EXCEPT ![i] = "done"]
  /\ UNCHANGED <<reqStatus, records, totalImages, bgPhase, dto>>
  /\ UNCHANGED poolVars

\* A catch branch that creates the 'failed' row and leaves the counter alone.
itemRejected_NoCount(b, i) ==
  /\ i \in ItemsOf(b)
  /\ itemPhase[i] = "awaiting"
  /\ promise[i].st = "rejected"
  /\ images' = images \cup {[id |-> FailedRowId(i), item |-> i, request |-> b,
                              status |-> "failed", outputUrl |-> 0]}
  /\ itemPhase' = [itemPhase EXCEPT ![i] = "done"]
  /\ UNCHANGED <<reqStatus, records, totalImages, bgPhase, completedImages, dto>>
  /\ UNCHANGED poolVars

\* processPromise after its pool promise rejected: the catch branch creates a
\* new row with status 'failed' and increments the counter.
itemRejected(b, i) ==
  /\ i \in ItemsOf(b)
  /\ itemPhase[i] = "awaiting"
  /\ promise[i].st = "rejected"
  /\ images' = images \cup {[id |-> FailedRowId(i), item |-> i, request |-> b,
                              status |-> "failed", outputUrl |-> 0]}
  /\ completedImages' = [completedImages EXCEPT ![b] = @ + 1]
  /\ itemPhase' = [itemPhase EXCEPT ![i] = "done"]
  /\ UNCHANGED <<reqStatus, records, totalImages, bgPhase, dto>>
  /\ UNCHANGED poolVars

\* A join fulfilled by the first processPromise (Promise.race).
allSettled_First(b) ==
  ItemsOf(b) # {} => \E i \in ItemsOf(b) : itemPhase[i] = "done"

\* Promise.all(processPromises) is fulfilled.
allSettled(b) == \A i \in ItemsOf(b) : itemPhase[i] = "done"

\* A final update writing the status the request was created with.
finalStatus_Pending(b) == "PENDING"

\* A final update writing the status of the catch branch.
finalStatus_Failed(b) == "FAILED"

\* Status written by the background chain once processRecords has returned.
finalStatus(b) == "COMPLETED"

\* Background chain, last part: processRecords has returned; final status
\* update.
finalize(b) ==
  /\ bgPhase[b] = "joining"
  /\ allSettled(b)
  /\ reqStatus' = [reqStatus EXCEPT ![b] = finalStatus(b)]
  /\ bgPhase' = [bgPhase EXCEPT ![b] = "done"]
  /\ UNCHANGED <<records, totalImages, itemPhase, images, completedImages, dto>>
  /\ UNCHANGED poolVars

\* ---------------------------------------------------------------- system
Init == InitPool /\ InitCsv

\* The pool under direct calls of processImage.
Next ==
  \/ Submit
  \/ \E w \in Units : \E k \in 1..numWorkers : \E ok \in BOOLEAN :
       WorkerMessage(w, k, ok)
  \/ \E w \in Units : WorkerError(w)
  \/ \E w \in Units : WorkerTerminates(w)

Spec == Init /\ [][Next]_vars

\* The pool with its shutdown (CsvProcessorService.onModuleDestroy calls
\* cleanup once).
NextCleanup ==
  \/ Submit
  \/ \E w \in Units : \E k \in 1..numWorkers : \E ok \in BOOLEAN :
       WorkerMessage(w, k, ok)
  \/ \E w \in Units : WorkerError(w)
  \/ \E w \in Units : WorkerTerminates(w)
  \/ cleanup
  \/ \E w \in Units : WorkerTerminated(w)
  \/ cleanupCompletes

CleanupSpec == Init /\ [][NextCleanup]_vars

\* The pool and its worker threads, the answer of a worker in two steps: the
\* worker posts its message, the pool handles it. (WorkerMessage is the two
\* steps in one, success being step = "ok".)
NextWorker ==
  \/ Submit
  \/ \E w \in Units : \E k \in 1..numWorkers : \E step \in Steps :
       WorkerHandles(w, k, step)
  \/ \E w \in Units : Deliver(w)

WorkerSpec == Init /\ [][NextWorker]_vars

\* The pool from its construction on any host, under direct calls of
\* processImage.
NextCtor ==
  \/ \E cpus \in 1..MaxCpus : construct(cpus)
  \/ ~Unconstructed /\ Submit
  \/ \E w \in CtorUnits : \E ok \in BOOLEAN : WorkerMessage(w, 1, ok)

InitUnconstructed == InitCtor /\ InitCsv

CtorSpec == InitUnconstructed /\ [][NextCtor]_vars

\* The orchestrator on top of the pool: processImage is called by the
\* processPromise of each item.
NextBatch ==
  \/ \E b \in Batches : \E rows \in RecordSets : processCSV(b, rows)
  \/ \E b \in Batches : startBackground(b)
  \/ \E b \in Batches : processRecords(b)
  \/ \E b \in Batches : processRecordsThrows(b)
  \/ \E b \in Batches : \E i \in Tasks : imageCreated(b, i)
  \/ \E b \in Batches : \E i \in Tasks : itemResolved(b, i)
  \/ \E b \in Batches : \E i \in Tasks : itemRejected(b, i)
  \/ \E b \in Batches : finalize(b)
  \/ \E w \in Units : \E k \in 1..numWorkers : \E ok \in BOOLEAN :
       WorkerMessage(w, k, ok)
  \/ \E w \in Units : WorkerError(w)
  \/ \E w \in Units : WorkerTerminates(w)

BatchSpec == Init /\ [][NextBatch]_vars

\* The continuations of the orchestrator: completions of database calls.
Continuation ==
  \/ \E b \in Batches : startBackground(b)
  \/ \E b \in Batches : \E i \in Tasks : imageCreated(b, i)
  \/ \E b \in Batches : \E i \in Tasks : itemResolved(b, i)
  \/ \E b \in Batches : \E i \in Tasks : itemRejected(b, i)
  \/ \E b \in Batches : finalize(b)

\* The event loop runs a continuation that is ready.
FairBatchSpec == BatchSpec /\ WF_vars(Continuation)

TypeOK ==
  /\ Range(workers) \subseteq Units
  /\ Range(availableWorkers) \subseteq Units
  /\ Range(taskQueue) \subseteq Tasks
  /\ alive \subseteq Units
  /\ nextWorker \in 1..(numWorkers + MaxReplacements + numWorkers + 1)
  /\ terminating \subseteq alive
  /\ cleanupPhase \in {"none", "terminating", "done"}
  /\ \A b \in Batches : reqStatus[b] \in {"none", "PENDING", "PROCESSING", "COMPLETED", "FAILED"}

\* ---------------------------------------------------------------- properties
Settled(t) == promise[t].st \in {"resolved", "rejected"}

Terminal(b) == reqStatus[b] \in {"COMPLETED", "FAILED"}

\* Tasks that live worker threads hold a task message for.
Executing == {t \in Tasks : \E w \in alive : t \in Range(running[w])}

\* No worker thread holds a task message: no result will arrive.
PoolQuiescent == \A w \in alive : running[w] = <<>>

\* C1: the 'message' event of a worker settles no other promise than that of
\* a task this worker was executing.
C1_ResultCorrelated ==
  [][\A w \in Units : \A k \in 1..numWorkers : \A ok \in BOOLEAN :
       WorkerMessage(w, k, ok) =>
         \A t \in Tasks : promise'[t] # promise[t] => t = running[w][k]]_vars

\* C2: once no worker holds a task any more, every submitted task has been
\* answered, and no two promises were resolved with the result of the same
\* task.
C2_EveryTaskAnsweredOnce ==
  PoolQuiescent =>
    /\ \A t \in Submitted : Settled(t)
    /\ \A t, u \in Submitted :
         (t # u /\ promise[t].st = "resolved" /\ promise[u].st = "resolved")
           => promise[t].res # promise[u].res

\* C3: at most numWorkers distinct tasks are being executed, at most
\* numWorkers workers are marked busy, and no worker holds two tasks.
C3_AtMostKBusy ==
  /\ Cardinality(Executing) <= numWorkers
  /\ Cardinality({w \in Range(workers) : activeJobs[w] # 0}) <= numWorkers
  /\ \A w \in Units : Len(running[w]) <= 1

\* C3 witness: all the workers of the pool execute, each a task of its own.
C3_Witness ==
  /\ Cardinality(Executing) = numWorkers
  /\ \A w \in Range(workers) : w \in alive /\ Len(running[w]) = 1

\* C4: a task that has been dispatched was not submitted after a task that
\* has never been dispatched (under Spec, tasks are numbered in the order of
\* their submission).
C4_FifoDispatch ==
  \A i, j \in Submitted :
    (i < j /\ j \in dispatched) => i \in dispatched

\* C5: the 'error' event of a worker that is busy with task T rejects the
\* promise of T and leaves every other promise as it is.
C5_CrashFailsOwnTask ==
  [][\A w \in Units :
       (WorkerError(w) /\ activeJobs[w] # 0) =>
         /\ promise'[activeJobs[w]].st = "rejected"
         /\ \A t \in Tasks : t # activeJobs[w] => promise'[t] = promise[t]]_vars

\* C6: the pool holds exactly numWorkers workers, all of them live.
C6_PoolSizeInvariant ==
  /\ Len(workers) = numWorkers
  /\ Cardinality({w \in Range(workers) : w \in alive}) = numWorkers

\* C7: a step that replaces a worker gives the new worker the slot id of the
\* old one and leaves it live, idle, without a job, and on top of the
\* availableWorkers stack, where the next dispatch takes its worker.
C7_ReplacementKeepsSlot ==
  [][\A w \in Range(workers) \ Range(workers') :
       \E n \in Range(workers') \ Range(workers) :
         /\ workerIds'[n] = workerIds[w]
         /\ n \in alive'
         /\ activeJobs'[n] = 0
         /\ running'[n] = <<>>
         /\ availableWorkers' # <<>>
         /\ availableWorkers'[Len(availableWorkers')] = n]_vars

\* C7 witness: the only task submitted so far runs on a replacement worker that
\* carries a slot id of the initial pool (so it was submitted after the
\* replacement).
C7_Witness ==
  /\ Submitted = {1}
  /\ \E w \in Range(workers) :
       /\ ~HasExitListener(w)
       /\ workerIds[w] \in 1..numWorkers
       /\ running[w] = <<1>>

C9_FailedItemFailsBatch ==
  \A b \in Batches :
    (Terminal(b) /\ \E i \in ItemsOf(b) : promise[i].st = "rejected")
      => reqStatus[b] = "FAILED"

\* Every Image row of the item is 'completed', and there is one.
ItemCompleted(i) ==
  /\ \E r \in images : r.item = i
  /\ \A r \in images : r.item = i => r.status = "completed"

\* All the tasks of the fanned-out batch resolved with success.
AllSucceeded(b) ==
  /\ bgPhase[b] = "joining"
  /\ ItemsOf(b) # {}
  /\ \A i \in ItemsOf(b) : promise[i].st = "resolved"

\* C10: a batch all of whose tasks resolved with success eventually is
\* COMPLETED with every item 'completed'.
C10_AllSuccessCompletes ==
  \A b \in Batches :
    AllSucceeded(b) ~>
      (reqStatus[b] = "COMPLETED" /\ \A i \in ItemsOf(b) : ItemCompleted(i))

\* C10 witness: a COMPLETED request with two items, both resolved with success
\* and 'completed'.
C10_Witness ==
  \E b \in Batches :
    /\ reqStatus[b] = "COMPLETED"
    /\ Cardinality(ItemsOf(b)) = 2
    /\ \A i \in ItemsOf(b) : promise[i].st = "resolved" /\ ItemCompleted(i)

\* Image rows of a batch, and of an item.
RowsOf(b) == {r \in images : r.request = b}

RowsOfItem(i) == {r \in images : r.item = i}

\* C11: a terminal request whose rows held no URL at all is FAILED, has no
\* Image row and had no task submitted.
C11_EmptyBatchFails ==
  \A b \in Batches :
    (Terminal(b) /\ totalImages[b] = 0) =>
      /\ reqStatus[b] = "FAILED"
      /\ RowsOf(b) = {}
      /\ \A i \in Tasks : promise[i].st = "none"

\* C12: once the request is terminal, the Image rows created for it are as
\* many as the URLs of its rows, one per URL occurrence.
C12_OneRecordPerUrl ==
  \A b \in Batches :
    Terminal(b) =>
      /\ Cardinality(RowsOf(b)) = totalImages[b]
      /\ \A i \in ItemsOf(b) : Cardinality(RowsOfItem(i)) = 1

\* C13: the row created for an item follows the outcome of the item's task
\* once it is handled ('completed' after success, 'failed' after failure), and
\* a terminal request has no row left 'pending'.
C13_ItemFollowsTask ==
  \A b \in Batches :
    /\ \A i \in ItemsOf(b) : \A r \in RowsOfItem(i) :
         (r.id = i /\ itemPhase[i] = "done") =>
           r.status = (IF promise[i].st = "resolved" THEN "completed" ELSE "failed")
    /\ Terminal(b) => \A r \in RowsOf(b) : r.status # "pending"

\* C14: the output reference stored on a 'completed' row is the id of the row
\* itself, i.e. the result of the task created for this item.
C14_OutputOfOwnTask ==
  \A r \in images : r.status = "completed" => r.outputUrl = r.id

\* Invocations of the notification collaborator for a batch: processCSV stores
\* webhookUrl on the request row and copies it into the DTO, and neither it
\* nor its background chain calls anything with it.
webhookCalls(b) == 0

\* C15: when the background chain of a request has ended, the notification
\* collaborator has been invoked exactly once for it, and it is invoked for no
\* request that is not terminal.
C15_NotifiedOnce ==
  \A b \in Batches :
    /\ bgPhase[b] = "done" => webhookCalls(b) = 1
    /\ ~Terminal(b) => webhookCalls(b) = 0

\* C16: at the step at which processCSV returns, the DTO and the request row
\* are PENDING or PROCESSING, and no item of the batch has been created,
\* submitted or resolved.
C16_ReturnsBeforeFanOut ==
  [][\A b \in Batches :
       (dto[b] = "none" /\ dto'[b] # "none") =>
         /\ dto'[b] \in {"PENDING", "PROCESSING"}
         /\ reqStatus'[b] \in {"PENDING", "PROCESSING"}
         /\ totalImages'[b] = -1
         /\ RowsOf(b)' = {}
         /\ \A i \in Tasks : itemPhase'[i] = "none" /\ promise'[i].st = "none"]_vars

\* C16 witness: the caller holds a PENDING DTO of a request that the
\* background chain later completed with two items.
C16_Witness ==
  \E b \in Batches :
    /\ dto[b] = "PENDING"
    /\ reqStatus[b] = "COMPLETED"
    /\ Cardinality(ItemsOf(b)) = 2
    /\ \A i \in ItemsOf(b) : itemPhase[i] = "done"

\* All the items of the batch have been submitted to the pool, none has been
\* answered, and every worker of the initial pool is running.
FannedOutUnanswered(b) ==
  /\ bgPhase[b] = "joining"
  /\ \A i \in ItemsOf(b) : itemPhase[i] = "awaiting" /\ promise[i].st = "pending"
  /\ nextWorker = numWorkers + 1
  /\ alive = 1..numWorkers

C18_CleanupStopsEverything ==
  [][(cleanupPhase = "terminating" /\ cleanupPhase' = "done") =>
       /\ alive' = {}
       /\ workers' = <<>>
       /\ availableWorkers' = <<>>
       /\ taskQueue' = <<>>
       /\ \A w \in Units : workerIds'[w] = 0 /\ activeJobs'[w] = 0]_vars

\* C19: a task that was waiting in the queue when cleanup was called keeps a
\* pending promise and is never posted to a worker.
C19_QueuedTasksDropped ==
  \A t \in queuedAtCleanup :
    promise[t].st = "pending" /\ t \notin dispatched

C21_OneResultPerTask ==
  [][\A w \in Units :
       Len(running'[w]) < Len(running[w]) =>
         /\ Len(running'[w]) = Len(running[w]) - 1
         /\ Len(posted'[w]) = Len(posted[w]) + 1
         /\ posted'[w][Len(posted'[w])].success = (w \notin lastFailed')
         /\ w \in alive']_vars

\* C21 witness: a worker whose previous task failed, and whose failure message
\* the pool has handled, holds the next task it was given.
C21_Witness ==
  \E w \in alive :
    /\ w \in lastFailed
    /\ posted[w] = <<>>
    /\ running[w] # <<>>

\* C26: a failure message carries the reason of the exception that the failing
\* step raised.
C26_FailureReasonKept ==
  \A w \in Units : \A n \in 1..Len(posted[w]) :
    ~posted[w][n].success => posted[w][n].error = posted[w][n].thrown

\* C22: no task is held by two worker threads at once (so it was not posted
\* to two workers).
C22_DispatchedAtMostOnce ==
  \A w1, w2 \in alive :
    w1 # w2 => Range(running[w1]) \cap Range(running[w2]) = {}

\* Live workers that the pool holds as idle.
IdleWorkers == {w \in Range(availableWorkers) : w \in alive}

\* Tasks waiting in the queue that were never posted to a worker.
Waiting == Range(taskQueue) \ dispatched

\* C23: between two events no worker is idle while a task waits undispatched.
C23_WorkConserving ==
  Waiting # {} => IdleWorkers = {}

\* C24: whenever the thread of a pool member stops, by 'error' or by 'exit'
\* alone, original or replacement, the member is replaced in the pool and the
\* pending promise of the task it was busy with is rejected.
C24_UniformCrashHandling ==
  [][\A w \in Range(workers) :
       (w \in alive /\ w \notin alive') =>
         /\ w \notin Range(workers')
         /\ Len(workers') = Len(workers)
         /\ \A n \in Range(workers') \ Range(workers) : n \in alive'
         /\ (activeJobs[w] # 0 /\ promise[activeJobs[w]].st = "pending")
              => promise'[activeJobs[w]].st = "rejected"]_vars

\* C28: every member of the pool is in availableWorkers or has an active job,
\* not both; availableWorkers holds no worker twice and only members of the
\* pool.
C28_SlotBookkeeping ==
  /\ \A w \in Range(workers) :
       (w \in Range(availableWorkers)) # (activeJobs[w] # 0)
  /\ Cardinality(Range(availableWorkers)) = Len(availableWorkers)
  /\ Range(availableWorkers) \subseteq Range(workers)

\* C28 witness: after a replacement, one member is idle and another is busy.
C28_Witness ==
  /\ nextWorker > numWorkers + 1
  /\ \E w \in Range(workers) : w \in Range(availableWorkers)
  /\ \E w \in Range(workers) : activeJobs[w] # 0 /\ ~HasExitListener(w)

\* C25: a batch whose items wait for their tasks always has a worker busy with
\* a task or a continuation ready to run (otherwise no step of the program
\* settles the tasks and the request never reaches a terminal state).
C25_BatchKeepsGoing ==
  \A b \in Batches :
    (/\ bgPhase[b] = "joining"
     /\ \A i \in ItemsOf(b) : itemPhase[i] # "creating"
     /\ \E i \in ItemsOf(b) : itemPhase[i] = "awaiting"
     /\ \A i \in ItemsOf(b) : itemPhase[i] = "awaiting" => ~Settled(i))
      => ~PoolQuiescent

Rank(status) ==
  CASE status = "none" -> 0
    [] status = "PENDING" -> 1
    [] status = "PROCESSING" -> 2
    [] status \in {"COMPLETED", "FAILED"} -> 3

\* C29: no step moves the status of a request backward, and no step changes a
\* terminal status.
C29_StatusMovesForward ==
  [][\A b \in Batches :
       /\ Rank(reqStatus'[b]) >= Rank(reqStatus[b])
       /\ Terminal(b) => reqStatus'[b] = reqStatus[b]]_vars

\* C29 witness: the request is terminal while a worker still executes a task
\* (steps of the pool follow the final update).
C29_Witness ==
  \E b \in Batches : Terminal(b) /\ totalImages[b] = 2 /\ ~PoolQuiescent

\* C30: while the request is PENDING it has no Image row, none of its items
\* has started, and the pool has no task queued, dispatched or promised.
C30_ProcessingBeforeItems ==
  \A b \in Batches :
    reqStatus[b] = "PENDING" =>
      /\ RowsOf(b) = {}
      /\ \A i \in Tasks : itemPhase[i] = "none" /\ promise[i] = NoPromise
      /\ taskQueue = <<>>
      /\ dispatched = {}
      /\ Executing = {}

\* C30 witness: a PROCESSING request with an Image row whose task a worker
\* executes.
C30_Witness ==
  \E b \in Batches :
    /\ reqStatus[b] = "PROCESSING"
    /\ \E r \in RowsOf(b) : r.id \in Executing

\* C31: until cleanup resets the pool, the tasks in the queue are the tasks
\* whose promise is pending, each of them once (so an entry leaves the queue
\* in the step that settles its promise, and no settled promise has one).
C31_QueueHoldsPending ==
  cleanupPhase # "done" =>
    /\ Range(taskQueue) = {t \in Tasks : promise[t].st = "pending"}
    /\ Cardinality(Range(taskQueue)) = Len(taskQueue)

\* C31 witness: a worker has been replaced, one promise is resolved, one
\* rejected and one pending with its task in the queue.
C31_Witness ==
  /\ cleanupPhase # "done"
  /\ Replacements > 0
  /\ \E t \in Tasks : promise[t].st = "resolved"
  /\ \E t \in Tasks : promise[t].st = "rejected"
  /\ \E t \in Range(taskQueue) : promise[t].st = "pending"

\* C32: a step in which a worker of the pool raises 'error' and then 'exit'
\* starts one new worker, which takes the place of the dead one, and a
\* further call of replaceWorker for the dead worker changes nothing.
C32_ReplacedOnce ==
  [][\A w \in Units :
       (WorkerError(w) /\ w \in Range(workers)) =>
         /\ nextWorker' = nextWorker + 1
         /\ Len(workers') = Len(workers)
         /\ w \notin Range(workers')
         /\ Range(workers') \ Range(workers) = {nextWorker}
         /\ replaceWorker(Pool, w)' = Pool']_vars

\* C32 witness: a worker built by initializeWorkers (which has both an
\* 'error' and an 'exit' listener) died while a task was at the head of the
\* queue: the promise of that task is rejected and one replacement exists.
C32_Witness ==
  /\ Replacements = 1
  /\ Len(workers) = numWorkers
  /\ \E w \in 1..numWorkers : w \notin Range(workers) /\ w \notin alive
  /\ \E t \in Tasks : promise[t].st = "rejected"
  /\ \A w \in alive : running[w] = <<>> /\ activeJobs[w] = 0


====
